---------------------------- MODULE Spec2Model ----------------------------
(***************************************************************************)
(* Booking-intake API of Alankritha Naturals (src/main.py, src/schemas.py). *)
(*                                                                         *)
(* Texts are TLA+ strings; a character of a text is SubSeq(s, i, i).       *)
(* A datetime is a record [year, month, day, hour, minute, second].        *)
(* A JSON value of a payload is [t |-> "str", s |-> text], [t |-> "null"]  *)
(* or, after the handler's coercion, [t |-> "datetime", dt |-> datetime].  *)
(***************************************************************************)
EXTENDS Integers, Sequences, FiniteSets, TLC

VARIABLES
    libcPadsYear,   \* whether the platform's strftime pads %Y to 4 digits
    errorsCarryInput, \* whether e.errors() entries carry the rejected input (pydantic 2)
    pc,             \* position of the request of the sequential endpoint
    payload,        \* the request body (a mapping from keys to JSON values)
    booking,        \* the Booking constructed for the request, or NoBooking
    calls,          \* create_document calls made for the request, in order
    icsCalls,       \* build_ics invocations made for the request
    response,       \* the response of the request, or NoResponse
    inserted,       \* number of documents the store holds
    handled,        \* number of requests answered so far
    reqs,           \* per-request state of the concurrently served requests
    first,          \* a build_ics call: [booking, now, out]
    second,         \* another build_ics call: [booking, now, out]
    dbState,        \* state of the storage collaborator seen by GET /test
    env,            \* the set of environment variables that are set
    diag            \* the response of GET /test, or NoResponse

vars == <<libcPadsYear, errorsCarryInput, pc, payload, booking, calls, icsCalls, response,
          inserted, handled, reqs, first, second, dbState, env, diag>>

-----------------------------------------------------------------------------
(* Bounds of the model *)

\* requests the sequential endpoint answers in one behaviour
MaxRequests == 2
\* requests served concurrently
NumRequests == 2
\* collections the store may hold
MaxCollections == 11
\* length of the longest exception message met while probing
MaxMessage == 52

-----------------------------------------------------------------------------
(* Program constants *)

NameMin == 2
NameMax == 100
PhoneMin == 7
PhoneMax == 20
NotesMax == 1000
BadDateStatus == 400
ValidationStatus == 422
DatabaseErrorStatus == 500
ShownCollections == 10
StrCut == 50
\* a response FastAPI sends for a returned value, and for an unhandled exception
OkStatus == 200
ServerErrorStatus == 500
\* datetime.MINYEAR, datetime.MAXYEAR
MinYear == 1
MaxYear == 9999

-----------------------------------------------------------------------------
(* Text helpers *)

CharAt(s, i) == SubSeq(s, i, i)

Digits == {"0", "1", "2", "3", "4", "5", "6", "7", "8", "9"}

DigitVal(c) ==
    CASE c = "0" -> 0 [] c = "1" -> 1 [] c = "2" -> 2 [] c = "3" -> 3
      [] c = "4" -> 4 [] c = "5" -> 5 [] c = "6" -> 6 [] c = "7" -> 7
      [] c = "8" -> 8 [] c = "9" -> 9

AllDigits(s) == \A i \in 1..Len(s) : CharAt(s, i) \in Digits

RECURSIVE Num(_)
Num(s) == IF Len(s) = 0 THEN 0
          ELSE 10 * Num(SubSeq(s, 1, Len(s) - 1)) + DigitVal(CharAt(s, Len(s)))

RECURSIVE Repeat(_, _)
Repeat(c, n) ==
    IF n = 0 THEN ""
    ELSE IF n % 2 = 1 THEN c \o Repeat(c, n - 1)
    ELSE LET half == Repeat(c, n \div 2) IN half \o half

\* '%02d' and the like: decimal, zero-filled to width w
Pad(n, w) ==
    LET d == ToString(n) IN IF Len(d) >= w THEN d ELSE Repeat("0", w - Len(d)) \o d

StartsWith(s, p) == Len(s) >= Len(p) /\ SubSeq(s, 1, Len(p)) = p

\* positions of character c in s
Positions(s, c) == {i \in 1..Len(s) : CharAt(s, i) = c}

LineBreaks == {"\n", "\r"}

HasLineBreak(s) == \E i \in 1..Len(s) : CharAt(s, i) \in LineBreaks

\* the positions of the line breaks of s
BreaksOf(s) == {i \in 1..Len(s) : CharAt(s, i) \in LineBreaks}

\* the lines of a text, as str.splitlines() gives them ("\r\n" is one break)
RECURSIVE LinesFrom(_, _, _)
LinesFrom(s, breaks, from) ==
    IF from > Len(s) THEN <<>>
    ELSE IF \A i \in breaks : i < from THEN <<SubSeq(s, from, Len(s))>>
    ELSE LET i == CHOOSE j \in breaks : j >= from /\ \A k \in breaks : k >= from => j <= k
             crlf == (i + 1) \in breaks /\ CharAt(s, i) = "\r" /\ CharAt(s, i + 1) = "\n"
         IN <<SubSeq(s, from, i - 1)>>
            \o LinesFrom(s, breaks, IF crlf THEN i + 2 ELSE i + 1)

Lines(s) == LinesFrom(s, BreaksOf(s), 1)

\* how many of the lines ls are the text line
CountIn(ls, line) == Cardinality({i \in 1..Len(ls) : ls[i] = line})

\* the value of the first of the lines ls that starts with prefix p, or NoLine
NoLine == "<no such line>"

FirstWith(ls, p, i) == StartsWith(ls[i], p) /\ \A k \in 1..(i - 1) : ~StartsWith(ls[k], p)

FieldIn(ls, p) ==
    IF \A i \in 1..Len(ls) : ~StartsWith(ls[i], p) THEN NoLine
    ELSE LET i == CHOOSE j \in 1..Len(ls) : FirstWith(ls, p, j)
         IN SubSeq(ls[i], Len(p) + 1, Len(ls[i]))

-----------------------------------------------------------------------------
(* datetime: the library operations the handler uses *)

DateTime(y, mo, d, h, mi, sec) ==
    [year |-> y, month |-> mo, day |-> d, hour |-> h, minute |-> mi, second |-> sec]

IsLeap(y) == (y % 4 = 0) /\ ((y % 100 # 0) \/ (y % 400 = 0))

DaysInMonth(y, mo) ==
    IF mo = 2 THEN (IF IsLeap(y) THEN 29 ELSE 28)
    ELSE IF mo \in {4, 6, 9, 11} THEN 30 ELSE 31

ValidDateTime(y, mo, d, h, mi, sec) ==
    /\ y \in MinYear..MaxYear
    /\ mo \in 1..12
    /\ d \in 1..DaysInMonth(y, mo)
    /\ h \in 0..23
    /\ mi \in 0..59
    /\ sec \in 0..59

\* datetime.fromisoformat(s) on the forms YYYY-MM-DD[*HH[:MM[:SS]]], where * is
\* any one character: [ok |-> TRUE, dt |-> datetime], or [ok |-> FALSE] when
\* it raises ValueError
ParseFailure == [ok |-> FALSE]

fromisoformat(s) ==
    LET n == Len(s)
        shape ==
            /\ n \in {10, 13, 16, 19}
            /\ AllDigits(SubSeq(s, 1, 4)) /\ CharAt(s, 5) = "-"
            /\ AllDigits(SubSeq(s, 6, 7)) /\ CharAt(s, 8) = "-"
            /\ AllDigits(SubSeq(s, 9, 10))
            /\ n >= 13 => AllDigits(SubSeq(s, 12, 13))
            /\ n >= 16 => (CharAt(s, 14) = ":" /\ AllDigits(SubSeq(s, 15, 16)))
            /\ n >= 19 => (CharAt(s, 17) = ":" /\ AllDigits(SubSeq(s, 18, 19)))
    IN IF ~shape THEN ParseFailure
       ELSE LET y == Num(SubSeq(s, 1, 4))
                mo == Num(SubSeq(s, 6, 7))
                d == Num(SubSeq(s, 9, 10))
                h == IF n >= 13 THEN Num(SubSeq(s, 12, 13)) ELSE 0
                mi == IF n >= 16 THEN Num(SubSeq(s, 15, 16)) ELSE 0
                sec == IF n >= 19 THEN Num(SubSeq(s, 18, 19)) ELSE 0
            IN IF ValidDateTime(y, mo, d, h, mi, sec)
               THEN [ok |-> TRUE, dt |-> DateTime(y, mo, d, h, mi, sec)]
               ELSE ParseFailure

\* start + timedelta(hours=1): [ok |-> TRUE, dt |-> datetime], or
\* [ok |-> FALSE] when the sum is past datetime.max and it raises OverflowError
Overflow == [ok |-> FALSE]

PlusOneHour(dt) ==
    IF dt.hour < 23 THEN [ok |-> TRUE, dt |-> [dt EXCEPT !.hour = dt.hour + 1]]
    ELSE IF dt.day < DaysInMonth(dt.year, dt.month)
    THEN [ok |-> TRUE, dt |-> [dt EXCEPT !.hour = 0, !.day = dt.day + 1]]
    ELSE IF dt.month < 12
    THEN [ok |-> TRUE, dt |-> [dt EXCEPT !.hour = 0, !.day = 1, !.month = dt.month + 1]]
    ELSE IF dt.year < MaxYear
    THEN [ok |-> TRUE,
          dt |-> [dt EXCEPT !.hour = 0, !.day = 1, !.month = 1, !.year = dt.year + 1]]
    ELSE Overflow

\* dt.strftime('%Y%m%dT%H%M%S'); %Y is the C library's: glibc writes the year
\* without leading zeros, other libraries fill it to four digits
strftime(dt, padsYear) ==
    (IF padsYear THEN Pad(dt.year, 4) ELSE ToString(dt.year))
    \o Pad(dt.month, 2) \o Pad(dt.day, 2) \o "T"
    \o Pad(dt.hour, 2) \o Pad(dt.minute, 2) \o Pad(dt.second, 2)

-----------------------------------------------------------------------------
(* schemas.Booking *)

\* Services with one more name let through
ServicesWithMassage ==
    {"Hair Styling", "Facials", "Manicure", "Pedicure", "Bridal Makeup", "Skincare", "Massage"}

Services == {"Hair Styling", "Facials", "Manicure", "Pedicure", "Bridal Makeup", "Skincare"}

Statuses == {"pending", "confirmed", "failed"}

DefaultStatus == "pending"

\* the fields of Booking, in declaration order
Fields == <<"name", "phone", "email", "service", "preferred_datetime", "notes", "status">>

Str(s) == [t |-> "str", s |-> s]
Null == [t |-> "null"]
Typed(dt) == [t |-> "datetime", dt |-> dt]

LowerChar(c) ==
    CASE c = "A" -> "a" [] c = "B" -> "b" [] c = "C" -> "c" [] c = "D" -> "d"
      [] c = "E" -> "e" [] c = "F" -> "f" [] c = "G" -> "g" [] c = "H" -> "h"
      [] c = "I" -> "i" [] c = "J" -> "j" [] c = "K" -> "k" [] c = "L" -> "l"
      [] c = "M" -> "m" [] c = "N" -> "n" [] c = "O" -> "o" [] c = "P" -> "p"
      [] c = "Q" -> "q" [] c = "R" -> "r" [] c = "S" -> "s" [] c = "T" -> "t"
      [] c = "U" -> "u" [] c = "V" -> "v" [] c = "W" -> "w" [] c = "X" -> "x"
      [] c = "Y" -> "y" [] c = "Z" -> "z" [] OTHER -> c

RECURSIVE Lower(_)
Lower(s) == IF Len(s) = 0 THEN "" ELSE LowerChar(Head(s)) \o Lower(Tail(s))

\* EmailStr: one "@", a non-empty local part, a domain of non-empty labels
\* with at least one period, and no blank, control or second "@" character
ValidEmail(s) ==
    LET ats == Positions(s, "@")
    IN /\ Cardinality(ats) = 1
       /\ LET at == CHOOSE i \in ats : TRUE
              dots == {i \in Positions(s, ".") : i > at}
          IN /\ at > 1
             /\ at < Len(s)
             /\ dots # {}
             /\ \A i \in dots : i # at + 1 /\ i # Len(s) /\ (i + 1) \notin dots
             /\ CharAt(s, 1) # "." /\ CharAt(s, at - 1) # "."
             /\ \A i \in 1..Len(s) : CharAt(s, i) \notin (LineBreaks \cup {" ", "\t"})

\* EmailStr keeps the local part and lower-cases the domain
NormalizedEmail(s) ==
    LET at == CHOOSE i \in Positions(s, "@") : TRUE
    IN SubSeq(s, 1, at) \o Lower(SubSeq(s, at + 1, Len(s)))

\* the values of the input mapping p, in the order of the schema's fields
RECURSIVE Values(_, _)
Values(p, i) ==
    IF i > Len(Fields) THEN <<>>
    ELSE (IF Fields[i] \in DOMAIN p THEN <<p[Fields[i]]>> ELSE <<>>) \o Values(p, i + 1)

\* one entry of a ValidationError: where, what, and the input that was rejected
Err(field, type, input) == [loc |-> field, type |-> type, input |-> input]

\* a field that is required and absent: the rejected input is the whole mapping
Missing(p, f) == Err(f, "missing", Values(p, 1))

\* a field whose value is rejected: the rejected input is that value
Bad(p, f, type) == Err(f, type, <<p[f]>>)

\* the errors pydantic finds in one field of the input mapping p
FieldErrors(p, f) ==
    LET has == f \in DOMAIN p
        v == p[f]
        isStr == v.t = "str"
    IN CASE f = "name" ->
              IF ~has THEN <<Missing(p, f)>>
              ELSE IF ~isStr THEN <<Bad(p, f, "string_type")>>
              ELSE IF Len(v.s) < NameMin THEN <<Bad(p, f, "string_too_short")>>
              ELSE IF Len(v.s) > NameMax THEN <<Bad(p, f, "string_too_long")>>
              ELSE <<>>
         [] f = "phone" ->
              IF ~has THEN <<Missing(p, f)>>
              ELSE IF ~isStr THEN <<Bad(p, f, "string_type")>>
              ELSE IF Len(v.s) < PhoneMin THEN <<Bad(p, f, "string_too_short")>>
              ELSE IF Len(v.s) > PhoneMax THEN <<Bad(p, f, "string_too_long")>>
              ELSE <<>>
         [] f = "email" ->
              IF ~has THEN <<Missing(p, f)>>
              ELSE IF ~isStr THEN <<Bad(p, f, "string_type")>>
              ELSE IF ~ValidEmail(v.s) THEN <<Bad(p, f, "value_error")>>
              ELSE <<>>
         [] f = "service" ->
              IF ~has THEN <<Missing(p, f)>>
              ELSE IF ~isStr \/ v.s \notin Services THEN <<Bad(p, f, "literal_error")>>
              ELSE <<>>
         [] f = "preferred_datetime" ->
              IF ~has THEN <<Missing(p, f)>>
              ELSE IF v.t # "datetime" THEN <<Bad(p, f, "datetime_type")>>
              ELSE <<>>
         [] f = "notes" ->
              IF ~has \/ v.t = "null" THEN <<>>
              ELSE IF ~isStr THEN <<Bad(p, f, "string_type")>>
              ELSE IF Len(v.s) > NotesMax THEN <<Bad(p, f, "string_too_long")>>
              ELSE <<>>
         [] f = "status" ->
              IF ~has THEN <<>>
              ELSE IF ~isStr \/ v.s \notin Statuses THEN <<Bad(p, f, "literal_error")>>
              ELSE <<>>

\* the errors of every field, in declaration order
RECURSIVE ErrorsFrom(_, _)
ErrorsFrom(p, i) ==
    IF i > Len(Fields) THEN <<>> ELSE FieldErrors(p, Fields[i]) \o ErrorsFrom(p, i + 1)

ValidationErrors(p) == ErrorsFrom(p, 1)

\* e.errors(): the entries of e, with their input where the library reports it
errors(e, carryInput) ==
    [i \in 1..Len(e) |-> IF carryInput THEN e[i] ELSE [e[i] EXCEPT !.input = <<>>]]

NoNotes == [t |-> "null"]

\* Booking(**p) for a mapping without validation errors
MakeBooking(p) ==
    [name |-> p["name"].s,
     phone |-> p["phone"].s,
     email |-> NormalizedEmail(p["email"].s),
     service |-> p["service"].s,
     preferred_datetime |-> p["preferred_datetime"].dt,
     notes |-> IF "notes" \in DOMAIN p THEN p["notes"] ELSE NoNotes,
     status |-> IF "status" \in DOMAIN p THEN p["status"].s ELSE DefaultStatus]

-----------------------------------------------------------------------------
(* main.build_ics *)

Raised(exc) == [raised |-> TRUE, exc |-> exc]
Returned(v) == [raised |-> FALSE, value |-> v]

\* booking.notes or ''
NotesOrEmpty(b) == IF b.notes.t = "null" THEN "" ELSE b.notes.s

\* uid with the name mixed in
uidWithName(start_str, b) == "booking-" \o start_str \o "-" \o b.email \o "-" \o b.name

uid(start_str, b) == "booking-" \o start_str \o "-" \o b.email

summary(b) == "Appointment: " \o b.service \o " - Alankritha Naturals"

description(b) ==
    "Name: " \o b.name \o "\\nPhone: " \o b.phone \o "\\nNotes: " \o NotesOrEmpty(b)

location == "Alankritha Naturals, Hyderabad"

\* build_ics without the line that closes the event
build_icsUnclosed(b, now, padsYear) ==
    IF ~PlusOneHour(b.preferred_datetime).ok
    THEN Raised("OverflowError: date value out of range")
    ELSE Returned(
           "BEGIN:VCALENDAR\n"
           \o "VERSION:2.0\n"
           \o "PRODID:-//Alankritha Naturals//Booking//EN\n"
           \o "BEGIN:VEVENT\n"
           \o "UID:" \o uid(strftime(b.preferred_datetime, padsYear), b) \o "\n"
           \o "DTSTAMP:" \o strftime(now, padsYear) \o "Z\n"
           \o "DTSTART:" \o strftime(b.preferred_datetime, padsYear) \o "\n"
           \o "DTEND:" \o strftime(PlusOneHour(b.preferred_datetime).dt, padsYear) \o "\n"
           \o "SUMMARY:" \o summary(b) \o "\n"
           \o "DESCRIPTION:" \o description(b) \o "\n"
           \o "LOCATION:" \o location \o "\n"
           \o "END:VCALENDAR\n")

\* build_ics(b) called at wall-clock time now (UTC)
build_ics(b, now, padsYear) ==
    LET start == b.preferred_datetime
        end == PlusOneHour(start)
    IN IF ~end.ok THEN Raised("OverflowError: date value out of range")
       ELSE LET start_str == strftime(start, padsYear)
                end_str == strftime(end.dt, padsYear)
                now_str == strftime(now, padsYear) \o "Z"
            IN Returned(
                 "BEGIN:VCALENDAR\n"
                 \o "VERSION:2.0\n"
                 \o "PRODID:-//Alankritha Naturals//Booking//EN\n"
                 \o "BEGIN:VEVENT\n"
                 \o "UID:" \o uid(start_str, b) \o "\n"
                 \o "DTSTAMP:" \o now_str \o "\n"
                 \o "DTSTART:" \o start_str \o "\n"
                 \o "DTEND:" \o end_str \o "\n"
                 \o "SUMMARY:" \o summary(b) \o "\n"
                 \o "DESCRIPTION:" \o description(b) \o "\n"
                 \o "LOCATION:" \o location \o "\n"
                 \o "END:VEVENT\n"
                 \o "END:VCALENDAR\n")

-----------------------------------------------------------------------------
(* database.create_document, the storage collaborator *)

\* what a call may do: insert the record and return, or raise with a message
DbMessages == {"connection refused", "Database not available", ""}

DbOutcomes == {[raises |-> FALSE, msg |-> ""]} \cup {[raises |-> TRUE, msg |-> m] : m \in DbMessages}

\* the identifier the store gives to the n-th document
NewId(n) == "doc" \o ToString(n)

\* create_document(collection_name, data) with n documents in the store
create_document(collection_name, data, outcome, n) ==
    IF outcome.raises
    THEN [raised |-> TRUE, msg |-> outcome.msg, id |-> "", inserted |-> n]
    ELSE [raised |-> FALSE, msg |-> "", id |-> NewId(n + 1), inserted |-> n + 1]

-----------------------------------------------------------------------------
(* main.create_booking *)

DateDetail == "Invalid preferred_datetime format. Use ISO 8601."

\* the dash and the apostrophe of the source text are written in ASCII here
ConfirmationMessage == "Appointment confirmed - we'll call to confirm the time."

NoResponse == [status |-> 0, detail |-> "", errors |-> <<>>, content |-> <<>>]

\* the response FastAPI sends for HTTPException(status_code, detail) with a text
HttpError(status_code, detail) ==
    [status |-> status_code, detail |-> detail, errors |-> <<>>, content |-> <<>>]

\* the response for an exception no handler catches
Unhandled == HttpError(ServerErrorStatus, "Internal Server Error")

\* json.dumps accepts texts and null, and raises TypeError on a datetime
JsonSerializable(detail) ==
    \A i \in 1..Len(detail) : \A j \in 1..Len(detail[i].input) :
        detail[i].input[j].t # "datetime"

\* the response for HTTPException(status_code, detail=e.errors()): the detail
\* is rendered with json.dumps, and a failure there is an unhandled exception
HttpErrorList(status_code, detail) ==
    IF JsonSerializable(detail)
    THEN [status |-> status_code, detail |-> "", errors |-> detail, content |-> <<>>]
    ELSE Unhandled

JSONResponse(content) ==
    [status |-> OkStatus, detail |-> "", errors |-> <<>>, content |-> <<content>>]

\* CoerceDate with the parse failure swallowed: the text is left in place
CoerceDateSwallow(p) ==
    IF "preferred_datetime" \in DOMAIN p /\ p["preferred_datetime"].t = "str"
       /\ fromisoformat(p["preferred_datetime"].s).ok
    THEN [ok |-> TRUE,
          payload |-> [p EXCEPT !["preferred_datetime"] =
                                    Typed(fromisoformat(p["preferred_datetime"].s).dt)]]
    ELSE [ok |-> TRUE, payload |-> p]

\* lines 112-116: the text of preferred_datetime replaced by its datetime
CoerceDate(p) ==
    IF "preferred_datetime" \in DOMAIN p /\ p["preferred_datetime"].t = "str"
    THEN LET r == fromisoformat(p["preferred_datetime"].s)
         IN IF r.ok
            THEN [ok |-> TRUE, payload |-> [p EXCEPT !["preferred_datetime"] = Typed(r.dt)]]
            ELSE [ok |-> FALSE, payload |-> p]
    ELSE [ok |-> TRUE, payload |-> p]

\* a call of create_document as the handler saw it: the identifier it returned,
\* or the message of the exception it raised
Call(collection_name, data, r) ==
    [collection |-> collection_name, data |-> data,
     result |-> IF r.raised THEN <<>> ELSE <<r.id>>,
     error |-> IF r.raised THEN <<r.msg>> ELSE <<>>]

SuccessContent(booking_id, ics) ==
    [status |-> "success", message |-> ConfirmationMessage,
     booking_id |-> booking_id, ics |-> ics]

\* lines 127-134: the invite is built and the success response returned
Respond(b, r, ics) ==
    [booking |-> <<b>>, calls |-> <<Call("booking", b, r)>>, icsCalls |-> 1,
     response |-> IF ics.raised THEN Unhandled
                  ELSE JSONResponse(SuccessContent(r.id, ics.value)),
     inserted |-> r.inserted]

\* Persisted with the failure of create_document ignored
PersistedIgnoringFailure(b, r, now, padsYear) == Respond(b, r, build_ics(b, now, padsYear))

\* lines 122-125: the outcome r of create_document("booking", b)
Persisted(b, r, now, padsYear) ==
    IF r.raised
    THEN [booking |-> <<b>>, calls |-> <<Call("booking", b, r)>>, icsCalls |-> 0,
          response |-> HttpError(DatabaseErrorStatus, "Database error: " \o r.msg),
          inserted |-> r.inserted]
    ELSE Respond(b, r, build_ics(b, now, padsYear))

Stop(resp, n) ==
    [booking |-> <<>>, calls |-> <<>>, icsCalls |-> 0, response |-> resp, inserted |-> n]

\* lines 118-120: Booking(**payload) on the mapping p with validation errors errs
Constructed(p, errs, outcome, now, padsYear, n) ==
    IF errs # <<>> THEN Stop(HttpErrorList(ValidationStatus, errs), n)
    ELSE Persisted(MakeBooking(p), create_document("booking", MakeBooking(p), outcome, n),
                   now, padsYear)

\* lines 110-116: the outcome c of the date coercion
Coerced(c, outcome, now, padsYear, carryInput, n) ==
    IF ~c.ok THEN Stop(HttpError(BadDateStatus, DateDetail), n)
    ELSE Constructed(c.payload, errors(ValidationErrors(c.payload), carryInput),
                     outcome, now, padsYear, n)

\* the handler run on payload p: what it constructs, calls and answers
create_booking(p, outcome, now, padsYear, carryInput, n) ==
    Coerced(CoerceDate(p), outcome, now, padsYear, carryInput, n)

-----------------------------------------------------------------------------
(* Inputs *)

Clock == {DateTime(2025, 5, 30, 9, 15, 0), DateTime(2025, 12, 31, 23, 59, 59)}

Absent == [t |-> "absent"]

\* a mapping from the keys that are present to their values
MkPayload(c) == [k \in {f \in DOMAIN c : c[f] # Absent} |-> c[k]]

NameOptions ==
    {Absent, Str("J"), Str("Jo"), Str(Repeat("n", NameMax)), Str(Repeat("n", NameMax + 1))}

PhoneOptions == {Absent, Str("123456"), Str("1234567"), Str(Repeat("9", PhoneMax + 1))}

EmailOptions == {Absent, Str("jane@Example.com"), Str("jane.example.com")}

ServiceOptions == {Absent, Str("Facials"), Str("Massage")}

DateOptions ==
    {Absent, Null, Str("2025-06-01T10:00:00"), Str("not-a-date"),
     Str("2025-02-30T10:00:00"), Str("9999-12-31T23:30:00")}

NotesOptions == {Absent, Str(Repeat("x", NotesMax)), Str(Repeat("x", NotesMax + 1))}

StatusOptions == {Absent, Str("confirmed"), Str("done")}

Payloads ==
    {MkPayload(c) : c \in [name : NameOptions, phone : PhoneOptions,
                           email : EmailOptions, service : ServiceOptions,
                           preferred_datetime : DateOptions, notes : NotesOptions,
                           status : StatusOptions]}

-----------------------------------------------------------------------------
(* POST /api/book, one request at a time *)

NoPayload == <<>>

NoCall == [booking |-> <<>>, now |-> <<>>, out |-> <<>>]

IdleRequest ==
    [pc |-> "idle", body |-> <<>>, payload |-> <<>>, booking |-> <<>>, calls |-> <<>>,
     icsCalls |-> 0, response |-> NoResponse]

IdleRequests == [r \in 1..NumRequests |-> IdleRequest]

IdleDiag ==
    [dbState |-> [kind |-> "unprobed", msg |-> "", name |-> "no", dbname |-> "",
                  listRaises |-> FALSE, collections |-> <<>>],
     env |-> <<>>, diag |-> <<>>]

InitBook ==
    /\ libcPadsYear \in BOOLEAN
    /\ errorsCarryInput \in BOOLEAN
    /\ pc = "idle"
    /\ payload = NoPayload
    /\ booking = <<>>
    /\ calls = <<>>
    /\ icsCalls = 0
    /\ response = NoResponse
    /\ inserted = 0
    /\ handled = 0

Init ==
    /\ InitBook
    /\ reqs = IdleRequests
    /\ first = NoCall
    /\ second = NoCall
    /\ dbState = IdleDiag.dbState
    /\ env = IdleDiag.env
    /\ diag = IdleDiag.diag

othervars == <<reqs, first, second, dbState, env, diag>>

\* a request arrives with some body
Receive ==
    /\ pc = "idle"
    /\ handled < MaxRequests
    /\ \E p \in Payloads : payload' = <<p>>
    /\ pc' = "received"
    /\ UNCHANGED <<libcPadsYear, errorsCarryInput, booking, calls, icsCalls, response,
                   inserted, handled>>
    /\ UNCHANGED othervars

\* the state after the handler's run res
Handled(res) ==
    /\ booking' = res.booking
    /\ calls' = res.calls
    /\ icsCalls' = res.icsCalls
    /\ response' = res.response
    /\ inserted' = res.inserted

\* the handler runs to its response
CreateBooking ==
    /\ pc = "received"
    /\ \E outcome \in DbOutcomes, now \in Clock :
          Handled(create_booking(payload[1], outcome, now, libcPadsYear,
                                 errorsCarryInput, inserted))
    /\ pc' = "responded"
    /\ handled' = handled + 1
    /\ UNCHANGED <<libcPadsYear, errorsCarryInput, payload>>
    /\ UNCHANGED othervars

\* the response is sent and the request's values are discarded
Finish ==
    /\ pc = "responded"
    /\ pc' = "idle"
    /\ payload' = NoPayload
    /\ booking' = <<>>
    /\ calls' = <<>>
    /\ icsCalls' = 0
    /\ response' = NoResponse
    /\ UNCHANGED <<libcPadsYear, errorsCarryInput, inserted, handled>>
    /\ UNCHANGED othervars

Next ==
    \/ Receive
    \/ CreateBooking
    \/ Finish

Spec == Init /\ [][Next]_vars

-----------------------------------------------------------------------------
(* Claims about POST /api/book, one request at a time *)

Answered == pc = "responded"

Body == payload[1]

HasText(p, f) == f \in DOMAIN p /\ p[f].t = "str"

RequiredFields == {"name", "phone", "email", "service", "preferred_datetime"}

MissingRequired(p) == \E f \in RequiredFields : f \notin DOMAIN p

OutOfRange(p) ==
    \/ HasText(p, "name") /\ Len(p["name"].s) \notin 2..100
    \/ HasText(p, "phone") /\ Len(p["phone"].s) \notin 7..20
    \/ HasText(p, "service")
       /\ p["service"].s \notin {"Hair Styling", "Facials", "Manicure", "Pedicure",
                                 "Bridal Makeup", "Skincare"}
    \/ HasText(p, "notes") /\ Len(p["notes"].s) > 1000
    \/ HasText(p, "email") /\ ~ValidEmail(p["email"].s)

UnparsableDate(p) ==
    HasText(p, "preferred_datetime") /\ ~fromisoformat(p["preferred_datetime"].s).ok

IsError(resp) == resp.status \in 400..599 /\ resp.content = <<>>

\* C1: a payload that misses a required Booking field or carries an out-of-range
\* value never gets a Booking constructed, ends with an error response, and
\* create_document is not called for it.
C1_InvalidPayloadNeverPersisted ==
    (Answered /\ (MissingRequired(Body) \/ OutOfRange(Body)))
        => /\ booking = <<>>
           /\ IsError(response)
           /\ calls = <<>>

\* a request with a one-character name, an unknown service and no phone was answered
C1_Witness ==
    /\ Answered
    /\ "phone" \notin DOMAIN Body
    /\ HasText(Body, "name") /\ Body["name"].s = "J"
    /\ HasText(Body, "service") /\ Body["service"].s = "Massage"
    /\ "preferred_datetime" \in DOMAIN Body /\ ~UnparsableDate(Body)
    /\ response.status = 422
    /\ calls = <<>>

\* C2: a payload whose preferred_datetime is text that fails ISO-8601 parsing is
\* answered 400 with the fixed detail, whatever its other fields; no Booking is
\* constructed and create_document is not called.
C2_BadDateTextIs400 ==
    (Answered /\ UnparsableDate(Body))
        => /\ response = HttpError(400, "Invalid preferred_datetime format. Use ISO 8601.")
           /\ booking = <<>>
           /\ calls = <<>>

\* a request with a well-shaped but impossible date and other invalid fields was answered
C2_Witness ==
    /\ Answered
    /\ HasText(Body, "preferred_datetime")
    /\ Body["preferred_datetime"].s = "2025-02-30T10:00:00"
    /\ OutOfRange(Body)
    /\ MissingRequired(Body)
    /\ response.status = 400

\* C3: every Booking handed to create_document has status pending, whatever the
\* payload, a status key of the client included.
C3_PersistedStatusIsPending ==
    \A i \in 1..Len(calls) : calls[i].data.status = "pending"

\* C4: when create_document raises, the request ends with status 500 and the
\* detail "Database error: " followed by the message; there is no success
\* content, no invite is built and create_document is not called again.
C4_PersistenceFailureIs500 ==
    (Answered /\ calls # <<>> /\ calls[1].error # <<>>)
        => /\ response.status = 500
           /\ response.detail = "Database error: " \o calls[1].error[1]
           /\ response.content = <<>>
           /\ icsCalls = 0
           /\ Len(calls) = 1
           /\ calls[1].result = <<>>

\* create_document raised "connection refused" for a validated payload
C4_Witness ==
    /\ Answered
    /\ booking # <<>>
    /\ calls # <<>> /\ calls[1].error = <<"connection refused">>
    /\ response.detail = "Database error: connection refused"

\* the fields of the body that violate a constraint of Booking
ViolatingFields(p) ==
    {f \in RequiredFields : f \notin DOMAIN p}
    \cup {f \in {"name", "phone", "email", "service", "status"} :
            f \in DOMAIN p /\ p[f].t # "str"}
    \cup {f \in {"preferred_datetime"} : f \in DOMAIN p /\ p[f].t = "null"}
    \cup {f \in {"name"} : HasText(p, f) /\ Len(p[f].s) \notin 2..100}
    \cup {f \in {"phone"} : HasText(p, f) /\ Len(p[f].s) \notin 7..20}
    \cup {f \in {"email"} : HasText(p, f) /\ ~ValidEmail(p[f].s)}
    \cup {f \in {"service"} :
            HasText(p, f)
            /\ p[f].s \notin {"Hair Styling", "Facials", "Manicure", "Pedicure",
                              "Bridal Makeup", "Skincare"}}
    \cup {f \in {"notes"} : HasText(p, f) /\ Len(p[f].s) > 1000}
    \cup {f \in {"status"} : HasText(p, f) /\ p[f].s \notin {"pending", "confirmed", "failed"}}

NamedFields(resp) == {resp.errors[i].loc : i \in 1..Len(resp.errors)}

\* C9: when a payload whose preferred_datetime is not unparsable text fails
\* Booking construction, the response is 422 and the fields its error list
\* names are exactly the fields that violate a constraint.
C9_AllViolationsNamed ==
    (Answered /\ ~UnparsableDate(Body) /\ ViolatingFields(Body) # {})
        => /\ response.status = 422
           /\ NamedFields(response) = ViolatingFields(Body)

\* a request violating three constraints at once was answered
C9_Witness ==
    /\ Answered
    /\ ViolatingFields(Body) = {"name", "phone", "service"}
    /\ HasText(Body, "name") /\ Body["name"].s = "J"
    /\ "phone" \notin DOMAIN Body
    /\ response.status = 422
    /\ Len(response.errors) = 3

\* the error list cannot be rendered: the library reports the whole input mapping
\* for a missing field, and line 114 has put a datetime object into that mapping
RenderFails(p) ==
    /\ errorsCarryInput
    /\ MissingRequired(p)
    /\ HasText(p, "preferred_datetime")
    /\ fromisoformat(p["preferred_datetime"].s).ok

\* what holds in place of C9: the list names every violating field, except that
\* a list that cannot be rendered is answered 500 without any list
C9_AllViolationsNamedIfRendered ==
    (Answered /\ ~UnparsableDate(Body) /\ ViolatingFields(Body) # {})
        => IF RenderFails(Body)
           THEN response = Unhandled
           ELSE /\ response.status = 422
                /\ NamedFields(response) = ViolatingFields(Body)

\* the example of C9 with a date that parses, on a library that reports inputs
C9_RenderFailure ==
    /\ Answered
    /\ RenderFails(Body)
    /\ ViolatingFields(Body) = {"name", "phone", "service"}
    /\ response.status = 500

-----------------------------------------------------------------------------
(* build_ics on validated Bookings *)

IcsNames == {Str("Jo"), Str("BEGIN:VEVENT"), Str("Eve\nBEGIN:VEVENT")}

IcsPhones == {Str("1234567"), Str("040 2345\nEND:VEVENT")}

IcsEmails == {Str("jane@Example.com"), Str("bob@example.org")}

IcsServices == {Str("Facials"), Str("Skincare")}

IcsNotes == {Absent, Str("a\\nEND:VEVENT"), Str("x\nEND:VCALENDAR\r\nBEGIN:VCALENDAR")}

IcsDates ==
    {Str("2025-06-01T10:00:00"), Str("2025-06-01"), Str("2025-06-30T23:30:00"),
     Str("2024-02-28T23:59:59"), Str("2025-02-28 23:00"), Str("2025-12-31T23:00:00"),
     Str("0999-06-01T10:00:00"), Str("9999-12-31T22:59:59"), Str("9999-12-31T23:00:00"),
     Str("2025-06-31T10:00:00")}

IcsPayloads ==
    {MkPayload(c) : c \in [name : IcsNames, phone : IcsPhones, email : IcsEmails,
                           service : IcsServices, preferred_datetime : IcsDates,
                           notes : IcsNotes]}

\* the Bookings the endpoint constructs from these payloads
ValidBookings ==
    {MakeBooking(CoerceDate(p).payload) :
        p \in {q \in IcsPayloads :
                 CoerceDate(q).ok /\ ValidationErrors(CoerceDate(q).payload) = <<>>}}

SameKey(a, b) == a.preferred_datetime = b.preferred_datetime /\ a.email = b.email

IcsCall(b, now, padsYear) ==
    [booking |-> <<b>>, now |-> <<now>>, out |-> <<build_ics(b, now, padsYear)>>]

InitIcs ==
    /\ libcPadsYear \in BOOLEAN
    /\ errorsCarryInput = FALSE
    /\ pc = "idle"
    /\ payload = NoPayload
    /\ booking \in {<<b>> : b \in ValidBookings}
    /\ calls = <<>>
    /\ icsCalls = 0
    /\ response = NoResponse
    /\ inserted = 0
    /\ handled = 0
    /\ reqs = IdleRequests
    /\ first = NoCall
    /\ second = NoCall
    /\ dbState = IdleDiag.dbState
    /\ env = IdleDiag.env
    /\ diag = IdleDiag.diag

\* build_ics is called on the Booking
BuildFirst ==
    /\ first = NoCall
    /\ \E now \in Clock : first' = IcsCall(booking[1], now, libcPadsYear)
    /\ UNCHANGED <<libcPadsYear, errorsCarryInput, pc, payload, booking, calls, icsCalls, response,
                   inserted, handled, reqs, second, dbState, env, diag>>

\* build_ics is called at another time, on the same Booking or on one with the
\* same preferred_datetime and email
BuildSecond ==
    /\ first # NoCall
    /\ second = NoCall
    /\ \E b \in {v \in ValidBookings : SameKey(v, booking[1])}, now \in Clock \ {first.now[1]} :
          second' = IcsCall(b, now, libcPadsYear)
    /\ UNCHANGED <<libcPadsYear, errorsCarryInput, pc, payload, booking, calls, icsCalls, response,
                   inserted, handled, reqs, first, dbState, env, diag>>

NextIcs == BuildFirst \/ BuildSecond

SpecIcs == InitIcs /\ [][NextIcs]_vars

-----------------------------------------------------------------------------
(* Claims about build_ics *)

Built(c) == c.out # <<>>

\* a text of the form YYYYMMDDTHHMMSS, and the datetime it writes
IsStamp(t) ==
    /\ Len(t) = 15
    /\ AllDigits(SubSeq(t, 1, 8))
    /\ CharAt(t, 9) = "T"
    /\ AllDigits(SubSeq(t, 10, 15))

StampTime(t) ==
    DateTime(Num(SubSeq(t, 1, 4)), Num(SubSeq(t, 5, 6)), Num(SubSeq(t, 7, 8)),
             Num(SubSeq(t, 10, 11)), Num(SubSeq(t, 12, 13)), Num(SubSeq(t, 14, 15)))

\* days from 0001-01-01 to the first day of month mo of year y
DaysBefore(y, mo) ==
    LET p == y - 1
        cumulative == <<0, 31, 59, 90, 120, 151, 181, 212, 243, 273, 304, 334>>
    IN 365 * p + (p \div 4) - (p \div 100) + (p \div 400) + cumulative[mo]
       + (IF mo > 2 /\ IsLeap(y) THEN 1 ELSE 0)

\* hours from 0001-01-01T00:00 to the hour dt lies in
HoursOf(dt) == (DaysBefore(dt.year, dt.month) + dt.day - 1) * 24 + dt.hour

OneHourLater(a, b) ==
    /\ HoursOf(b) = HoursOf(a) + 1
    /\ b.minute = a.minute
    /\ b.second = a.second

StartEnd(start, s, e) ==
    /\ IsStamp(s)
    /\ IsStamp(e)
    /\ StampTime(s) = start
    /\ OneHourLater(start, StampTime(e))

StartEndOneHour(b, ls) == StartEnd(b.preferred_datetime, FieldIn(ls, "DTSTART:"), FieldIn(ls, "DTEND:"))

Produced(c) == Built(c) /\ ~c.out[1].raised

\* C6: for every validated Booking build_ics produces an invite whose DTSTART is
\* preferred_datetime and whose DTEND is one hour later, both written as
\* YYYYMMDDTHHMMSS, across day, month and year boundaries too.
C6_StartEndOneHour ==
    Built(first) =>
        /\ ~first.out[1].raised
        /\ StartEndOneHour(first.booking[1], Lines(first.out[1].value))

\* what holds instead: on the Bookings of four-digit years that start before
\* the last hour of 9999-12-31
C6_StartEndOneHourInRange ==
    (Built(first) /\ first.booking[1].preferred_datetime.year >= 1000
       /\ HoursOf(first.booking[1].preferred_datetime) < HoursOf(DateTime(9999, 12, 31, 23, 0, 0)))
        => /\ ~first.out[1].raised
           /\ StartEndOneHour(first.booking[1], Lines(first.out[1].value))

IcsFields == {"UID:", "DTSTART:", "DTEND:", "SUMMARY:", "DESCRIPTION:", "LOCATION:"}

SameOutcome(a, b) == a.out[1].raised = b.out[1].raised

SameField(la, lb, f) == FieldIn(la, f) # NoLine /\ FieldIn(la, f) = FieldIn(lb, f)

SameFields(la, lb, sameBooking) ==
    /\ SameField(la, lb, "UID:")
    /\ sameBooking => \A f \in IcsFields : SameField(la, lb, f)

\* C7: two build_ics calls on the same Booking, at any two times, give the same
\* UID, DTSTART, DTEND, SUMMARY, DESCRIPTION and LOCATION lines; and the UID is
\* the same for any two Bookings of the same preferred_datetime and email.
C7_DeterministicExceptStamp ==
    (Built(first) /\ Built(second)) =>
        /\ SameOutcome(first, second)
        /\ ~first.out[1].raised =>
             SameFields(Lines(first.out[1].value), Lines(second.out[1].value),
                        second.booking = first.booking)

StampsDiffer(la, lb) == FieldIn(la, "DTSTAMP:") # FieldIn(lb, "DTSTAMP:")

\* the same Booking was formatted at two different times
C7_WitnessSameBooking ==
    /\ Produced(first) /\ Produced(second)
    /\ second.booking = first.booking
    /\ second.now # first.now
    /\ StampsDiffer(Lines(first.out[1].value), Lines(second.out[1].value))

\* two Bookings that differ in name, phone, service and notes were formatted
C7_Witness ==
    /\ Produced(first) /\ Produced(second)
    /\ second.booking[1].name # first.booking[1].name
    /\ second.booking[1].phone # first.booking[1].phone
    /\ second.booking[1].service # first.booking[1].service
    /\ second.booking[1].notes # first.booking[1].notes
    /\ StampsDiffer(Lines(first.out[1].value), Lines(second.out[1].value))

LineIndex(ls, line) == CHOOSE i \in 1..Len(ls) : ls[i] = line

OneBlock(ls) ==
    /\ CountIn(ls, "BEGIN:VCALENDAR") = 1
    /\ CountIn(ls, "BEGIN:VEVENT") = 1
    /\ CountIn(ls, "END:VEVENT") = 1
    /\ CountIn(ls, "END:VCALENDAR") = 1
    /\ LineIndex(ls, "BEGIN:VCALENDAR") < LineIndex(ls, "BEGIN:VEVENT")
    /\ LineIndex(ls, "BEGIN:VEVENT") < LineIndex(ls, "END:VEVENT")
    /\ LineIndex(ls, "END:VEVENT") < LineIndex(ls, "END:VCALENDAR")

OneEventBlock(ics) == OneBlock(Lines(ics))

\* C10 as stated: every document build_ics returns holds exactly one event
\* block, whatever the name, phone and notes are, line breaks included.
C10_OneEventBlock == Produced(first) => OneEventBlock(first.out[1].value)

FreeOfLineBreaks(b) ==
    /\ ~HasLineBreak(b.name)
    /\ ~HasLineBreak(b.phone)
    /\ ~HasLineBreak(NotesOrEmpty(b))

\* C10 as amended: every document build_ics returns for a Booking whose name,
\* phone and notes hold no line break holds exactly one event block.
C10_OneEventBlockWithoutLineBreaks ==
    (Produced(first) /\ FreeOfLineBreaks(first.booking[1]))
        => OneEventBlock(first.out[1].value)

\* a Booking named after a calendar keyword, without line breaks, was formatted
C10_Witness ==
    /\ Produced(first)
    /\ FreeOfLineBreaks(first.booking[1])
    /\ first.booking[1].name = "BEGIN:VEVENT"
    /\ NotesOrEmpty(first.booking[1]) = "a\\nEND:VEVENT"

-----------------------------------------------------------------------------
(* POST /api/book, requests served concurrently, one step of the handler at a time *)

JaneDoe ==
    [name |-> Str("Jane Doe"), phone |-> Str("1234567890"), email |-> Str("jane@example.com"),
     service |-> Str("Facials"), preferred_datetime |-> Str("2025-06-01T10:00:00")]

ConcPayloads ==
    {JaneDoe,
     [JaneDoe EXCEPT !.preferred_datetime = Str("not-a-date")],
     [JaneDoe EXCEPT !.service = Str("Massage")],
     [JaneDoe EXCEPT !.preferred_datetime = Str("9999-12-31T23:30:00")]}

ConcOutcomes == {o \in DbOutcomes : o.msg \in {"", "connection refused"}}

Requests == 1..NumRequests

InitConc ==
    /\ InitBook
    /\ reqs = IdleRequests
    /\ first = NoCall
    /\ second = NoCall
    /\ dbState = IdleDiag.dbState
    /\ env = IdleDiag.env
    /\ diag = IdleDiag.diag

concfixed == <<libcPadsYear, errorsCarryInput, pc, payload, booking, calls, icsCalls,
               response, handled, first, second, dbState, env, diag>>

\* request r arrives with some body
Arrive(r) ==
    /\ reqs[r].pc = "idle"
    /\ \E p \in ConcPayloads :
          reqs' = [reqs EXCEPT ![r].pc = "received", ![r].body = <<p>>, ![r].payload = <<p>>]
    /\ UNCHANGED inserted
    /\ UNCHANGED concfixed

\* lines 112-116 of request r
StepCoerce(r) ==
    /\ reqs[r].pc = "received"
    /\ LET c == CoerceDate(reqs[r].payload[1])
       IN reqs' = IF c.ok
                  THEN [reqs EXCEPT ![r].pc = "coerced", ![r].payload = <<c.payload>>]
                  ELSE [reqs EXCEPT ![r].pc = "responded",
                                    ![r].response = HttpError(BadDateStatus, DateDetail)]
    /\ UNCHANGED inserted
    /\ UNCHANGED concfixed

\* lines 118-120 of request r
StepConstruct(r) ==
    /\ reqs[r].pc = "coerced"
    /\ LET errs == errors(ValidationErrors(reqs[r].payload[1]), errorsCarryInput)
       IN reqs' = IF errs = <<>>
                  THEN [reqs EXCEPT ![r].pc = "validated",
                                    ![r].booking = <<MakeBooking(reqs[r].payload[1])>>]
                  ELSE [reqs EXCEPT ![r].pc = "responded",
                                    ![r].response = HttpErrorList(ValidationStatus, errs)]
    /\ UNCHANGED inserted
    /\ UNCHANGED concfixed

\* the state after the outcome res of request r's create_document call
AfterPersist(r, res) ==
    /\ inserted' = res.inserted
    /\ reqs' = IF res.raised
               THEN [reqs EXCEPT ![r].pc = "responded",
                                 ![r].calls = Append(@, Call("booking", reqs[r].booking[1], res)),
                                 ![r].response =
                                     HttpError(DatabaseErrorStatus, "Database error: " \o res.msg)]
               ELSE [reqs EXCEPT ![r].pc = "persisted",
                                 ![r].calls = Append(@, Call("booking", reqs[r].booking[1], res))]

\* lines 122-125 of request r
StepPersist(r) ==
    /\ reqs[r].pc = "validated"
    /\ \E outcome \in ConcOutcomes :
          AfterPersist(r, create_document("booking", reqs[r].booking[1], outcome, inserted))
    /\ UNCHANGED concfixed

\* the state after request r's build_ics call gave ics
AfterInvite(r, ics) ==
    reqs' = [reqs EXCEPT
               ![r].pc = "responded",
               ![r].icsCalls = @ + 1,
               ![r].response =
                   IF ics.raised THEN Unhandled
                   ELSE JSONResponse(SuccessContent(reqs[r].calls[1].result[1], ics.value))]

\* lines 127-134 of request r
StepRespond(r) ==
    /\ reqs[r].pc = "persisted"
    /\ \E now \in Clock : AfterInvite(r, build_ics(reqs[r].booking[1], now, libcPadsYear))
    /\ UNCHANGED inserted
    /\ UNCHANGED concfixed

NextConc ==
    \E r \in Requests :
        \/ Arrive(r)
        \/ StepCoerce(r)
        \/ StepConstruct(r)
        \/ StepPersist(r)
        \/ StepRespond(r)

SpecConc == InitConc /\ [][NextConc]_vars

-----------------------------------------------------------------------------
(* Claims about concurrent requests *)

Passes(p) == CoerceDate(p).ok /\ ValidationErrors(CoerceDate(p).payload) = <<>>

IsSuccess(resp) == resp.status = 200 /\ resp.content # <<>>

DocumentReturned(q) == q.calls # <<>> /\ q.calls[1].result # <<>>

PersistsOnceAfterValidation(q) ==
    /\ Len(q.calls) <= 1
    /\ q.calls # <<>> => (Passes(q.body[1]) /\ q.booking # <<>>)

OwnIdentifier(r) ==
    IsSuccess(reqs[r].response) =>
        /\ DocumentReturned(reqs[r])
        /\ reqs[r].response.content[1].booking_id = reqs[r].calls[1].result[1]
        /\ \A o \in Requests \ {r} :
              DocumentReturned(reqs[o]) =>
                 reqs[o].calls[1].result[1] # reqs[r].response.content[1].booking_id

\* C5: in every interleaving each request calls create_document at most once
\* and only after its own payload passed date parsing and validation; it is
\* answered with success if and only if its own create_document call
\* returned, and the booking_id it is given is the one that call returned.
C5_RequestsIndependent ==
    \A r \in Requests :
        /\ PersistsOnceAfterValidation(reqs[r])
        /\ reqs[r].pc = "responded" =>
              (IsSuccess(reqs[r].response) <=> DocumentReturned(reqs[r]))
        /\ OwnIdentifier(r)

\* what holds instead: success only if the own call returned, and the rest of C5
C5_SuccessOnlyIfPersisted ==
    \A r \in Requests :
        /\ PersistsOnceAfterValidation(reqs[r])
        /\ reqs[r].pc = "responded" =>
              (IsSuccess(reqs[r].response) => DocumentReturned(reqs[r]))
        /\ (reqs[r].pc = "responded" /\ DocumentReturned(reqs[r])
              /\ ~IsSuccess(reqs[r].response))
             => reqs[r].booking[1].preferred_datetime.year = 9999
        /\ OwnIdentifier(r)

\* two requests were both answered with success
C5_TwoSucceeded ==
    /\ IsSuccess(reqs[1].response)
    /\ IsSuccess(reqs[2].response)

-----------------------------------------------------------------------------
(* main.test_database, GET /test *)

\* the marks of the source's status texts are written in ASCII here:
\* [ok] for the check mark, [x] for the cross, [!] for the warning sign
None == "<None>"

Cut(t, n) == IF Len(t) <= n THEN t ELSE SubSeq(t, 1, n)

Take(q, n) == IF Len(q) <= n THEN q ELSE SubSeq(q, 1, n)

\* lines 33-40
InitialReport ==
    [backend |-> "[ok] Running",
     database |-> "[x] Not Available",
     database_url |-> None,
     database_name |-> None,
     connection_status |-> "Not Connected",
     collections |-> <<>>]

NoException(resp) == [exc |-> "", msg |-> "", response |-> resp]

Exception(type, msg, resp) == [exc |-> type, msg |-> msg, response |-> resp]

\* lines 52-58: db.list_collection_names() and its own except clause
ListCollections(db, resp) ==
    IF db.listRaises
    THEN [resp EXCEPT !.database = "[!]  Connected but Error: " \o Cut(db.msg, StrCut)]
    ELSE [resp EXCEPT !.collections = Take(db.collections, ShownCollections),
                      !.database = "[ok] Connected & Working"]

\* lines 46-50 for a db that is not None
Available(resp) ==
    [resp EXCEPT !.database = "[ok] Available", !.database_url = "[ok] Configured"]

Connected(db, resp) ==
    [resp EXCEPT !.database_name = IF db.name = "yes" THEN db.dbname ELSE "[ok] Connected",
                 !.connection_status = "Connected"]

\* lines 43-60, the body of the outer try: the exception that leaves it, if
\* any, and the report as it stands then
TryProbe(db, resp) ==
    CASE db.kind = "module_missing" ->
           Exception("ImportError", "No module named 'database'", resp)
      [] db.kind = "import_error" -> Exception("Exception", db.msg, resp)
      [] db.kind = "none" ->
           NoException([resp EXCEPT !.database = "[!]  Available but not initialized"])
      [] db.kind = "db" ->
           IF db.name = "raises" THEN Exception("Exception", db.msg, Available(resp))
           ELSE NoException(ListCollections(db, Connected(db, Available(resp))))

\* ExceptClauses with only ImportError caught
ExceptImportErrorOnly(t) ==
    IF t.exc = "ImportError"
    THEN [raised |-> FALSE,
          response |-> [t.response EXCEPT
                          !.database = "[x] Database module not found (run enable-database first)"]]
    ELSE [raised |-> t.exc # "", response |-> t.response]

\* lines 62-65: the except clauses of the outer try
ExceptClauses(t) ==
    IF t.exc = "ImportError"
    THEN [raised |-> FALSE,
          response |-> [t.response EXCEPT
                          !.database = "[x] Database module not found (run enable-database first)"]]
    ELSE IF t.exc = "Exception"
    THEN [raised |-> FALSE,
          response |-> [t.response EXCEPT !.database = "[x] Error: " \o Cut(t.msg, StrCut)]]
    ELSE [raised |-> FALSE, response |-> t.response]

\* os.getenv(k) is set and not empty
Truthy(e, k) == k \in DOMAIN e /\ e[k] # ""

\* lines 67-70
CheckEnvironment(resp, e) ==
    [resp EXCEPT
       !.database_url = IF Truthy(e, "DATABASE_URL") THEN "[ok] Set" ELSE "[x] Not Set",
       !.database_name = IF Truthy(e, "DATABASE_NAME") THEN "[ok] Set" ELSE "[x] Not Set"]

\* the response of the route after the except clauses gave c
Report(c, e) ==
    IF c.raised THEN [status |-> ServerErrorStatus, body |-> <<>>]
    ELSE [status |-> OkStatus, body |-> <<CheckEnvironment(c.response, e)>>]

test_database(db, e) == Report(ExceptClauses(TryProbe(db, InitialReport)), e)

DiagMessages == {"", "timed out", Repeat("e", MaxMessage)}

CollectionNames(n) == [i \in 1..n |-> "collection" \o ToString(i)]

Db(kind, msg, name, listRaises, n) ==
    [kind |-> kind, msg |-> msg, name |-> name, dbname |-> "salon",
     listRaises |-> listRaises, collections |-> CollectionNames(n)]

DbStates ==
    {Db("module_missing", "", "no", FALSE, 0), Db("none", "", "no", FALSE, 0)}
    \cup {Db("import_error", m, "no", FALSE, 0) : m \in DiagMessages}
    \cup {Db("db", m, "raises", FALSE, 0) : m \in DiagMessages}
    \cup {Db("db", m, h, TRUE, 0) : m \in DiagMessages, h \in {"yes", "no"}}
    \cup {Db("db", "", h, FALSE, n) : n \in 0..MaxCollections, h \in {"yes", "no"}}

EnvNames == {"DATABASE_URL", "DATABASE_NAME"}

Environments == UNION {[S -> {"", "mongodb://localhost:27017"}] : S \in SUBSET EnvNames}

InitDiag ==
    /\ libcPadsYear = FALSE
    /\ errorsCarryInput = FALSE
    /\ pc = "idle"
    /\ payload = NoPayload
    /\ booking = <<>>
    /\ calls = <<>>
    /\ icsCalls = 0
    /\ response = NoResponse
    /\ inserted = 0
    /\ handled = 0
    /\ reqs = IdleRequests
    /\ first = NoCall
    /\ second = NoCall
    /\ dbState \in DbStates
    /\ env \in Environments
    /\ diag = <<>>

\* GET /test is served
TestDatabase ==
    /\ diag = <<>>
    /\ diag' = <<test_database(dbState, env)>>
    /\ UNCHANGED <<libcPadsYear, errorsCarryInput, pc, payload, booking, calls, icsCalls, response,
                   inserted, handled, reqs, first, second, dbState, env>>

NextDiag == TestDatabase

SpecDiag == InitDiag /\ [][NextDiag]_vars

-----------------------------------------------------------------------------
(* Claims about GET /test *)

Probed == diag # <<>>

\* the text the database field shows for each state of the collaborator
FailureText(db) ==
    CASE db.kind = "module_missing" ->
           "[x] Database module not found (run enable-database first)"
      [] db.kind = "import_error" -> "[x] Error: " \o Cut(db.msg, 50)
      [] db.kind = "none" -> "[!]  Available but not initialized"
      [] db.kind = "db" /\ db.name = "raises" -> "[x] Error: " \o Cut(db.msg, 50)
      [] db.kind = "db" /\ db.name # "raises" /\ db.listRaises ->
           "[!]  Connected but Error: " \o Cut(db.msg, 50)
      [] OTHER -> "[ok] Connected & Working"

\* C8: GET /test answers with its diagnostic object and never with an error
\* status, whatever the state of the storage collaborator; every failure of
\* the probing is text in the database field.
C8_DiagnosticsNeverFail ==
    Probed =>
        /\ diag[1].status = 200
        /\ diag[1].body # <<>>
        /\ diag[1].body[1].database = FailureText(dbState)
        /\ diag[1].body[1].backend = "[ok] Running"
        /\ Len(diag[1].body[1].collections) <= 10

\* list_collection_names raised with a message longer than 50 characters
C8_Witness ==
    /\ Probed
    /\ dbState.kind = "db" /\ dbState.listRaises /\ Len(dbState.msg) > 50
    /\ diag[1].status = 200
    /\ Len(diag[1].body[1].database) = Len("[!]  Connected but Error: ") + 50

\* the import of the database module raised an error other than ImportError
C8_WitnessImportError ==
    /\ Probed
    /\ dbState.kind = "import_error"
    /\ diag[1].status = 200

=============================================================================
